---- MODULE Spec2Model ----
(***************************************************************************)
(* Password generator: the library lib/password-generator.ts               *)
(* (generatePassword, calculatePasswordStrength, getStrengthInfo) and the  *)
(* page component app/page.tsx that drives it.                             *)
(*                                                                         *)
(* A string is a sequence of one-character strings.  An unsigned 32-bit    *)
(* value is a record [hi, lo] of its two 16-bit halves, so that the        *)
(* arithmetic on it stays exact.                                           *)
(***************************************************************************)
EXTENDS Integers, Sequences, FiniteSets

VARIABLES
    length,     \* page.tsx: useState<number>(16)
    options,    \* page.tsx: useState<PasswordOptions>(initialOptions)
    copied,     \* page.tsx: useState<boolean>(false); handleCopy, which sets
                \* it, writes no other state and is not modelled
    password,   \* page.tsx: useState<string>(lazy initializer)
    console,    \* the messages written with console.error
    call        \* library harness: the last call of an exported function

uiVars == <<length, options, copied, password, console>>
vars == <<length, options, copied, password, console, call>>

----------------------------------------------------------------------------
(* Bounds of the model *)

\* sequences of draws are enumerated in full up to this length
MaxFreeLen == 2
\* longer sequences of draws walk the sample values with a stride 0..MaxStride
MaxStride == 1
\* policy lengths are taken this far on each side of the limits 1 and 128
LenMargin == 2
\* password lengths 0..MaxScoredLen are all scored
MaxScoredLen == 13

----------------------------------------------------------------------------
(* Program constants *)

MinPasswordLength == 1
MaxPasswordLength == 128
MaxStrength == 10
UIMinLength == 6
UIMaxLength == 32
InitialLength == 16
\* 2^16, the weight of the high half of a 32-bit value
Half == 256 * 256

UPPERCASE ==
    << "A","B","C","D","E","F","G","H","I","J","K","L","M",
       "N","O","P","Q","R","S","T","U","V","W","X","Y","Z" >>
LOWERCASE ==
    << "a","b","c","d","e","f","g","h","i","j","k","l","m",
       "n","o","p","q","r","s","t","u","v","w","x","y","z" >>
NUMBERS ==
    << "0","1","2","3","4","5","6","7","8","9" >>
SYMBOLS ==
    << "!","@","#","$","%","^","&","*","(",")","_","+","-",
       "=","[","]","{","}","|",";",":",",",".","<",">","?" >>

EmptyClassError == "At least one character type must be selected"
LengthError == "Password length must be between 1 and 128"
GenerateErrorLog == "Error generating password:"

----------------------------------------------------------------------------
(* Helpers *)

Range(s) == { s[i] : i \in 1..Len(s) }

Min(a, b) == IF a <= b THEN a ELSE b

PasswordOptions(len, up, low, num, sym) ==
    [ length |-> len, includeUppercase |-> up, includeLowercase |-> low,
      includeNumbers |-> num, includeSymbols |-> sym ]

\* an unsigned 32-bit value hi * 2^16 + lo
U32(hi, lo) == [hi |-> hi, lo |-> lo]

\* v % n for an unsigned 32-bit value v and 0 < n
Uint32Mod(v, n) == (((v.hi % n) * (Half % n)) + (v.lo % n)) % n

\* s[index] of a JavaScript string: undefined outside 0..s.length-1
Undefined == "undefined"
CharAt(s, index) ==
    IF index >= 0 /\ index < Len(s) THEN s[index + 1] ELSE Undefined

\* Array.prototype.join("") of an array whose elements are one-character
\* strings or undefined: an undefined element contributes nothing
Join(arr) == SelectSeq(arr, LAMBDA c : c # Undefined)

----------------------------------------------------------------------------
(* lib/password-generator.ts *)

\* mutant: the digits and symbols branches append each other's alphabet
CharsetSwapped(o) ==
    (IF o.includeUppercase THEN UPPERCASE ELSE << >>)
    \o (IF o.includeLowercase THEN LOWERCASE ELSE << >>)
    \o (IF o.includeNumbers THEN SYMBOLS ELSE << >>)
    \o (IF o.includeSymbols THEN NUMBERS ELSE << >>)

Charset(o) ==
    (IF o.includeUppercase THEN UPPERCASE ELSE << >>)
    \o (IF o.includeLowercase THEN LOWERCASE ELSE << >>)
    \o (IF o.includeNumbers THEN NUMBERS ELSE << >>)
    \o (IF o.includeSymbols THEN SYMBOLS ELSE << >>)

Throw(msg) == [threw |-> TRUE, error |-> msg, value |-> << >>]
Return(v) == [threw |-> FALSE, error |-> "", value |-> v]

\* mutant: the upper limit is tested with >=
LengthInvalidOffByOne(len) ==
    len < MinPasswordLength \/ len >= MaxPasswordLength

LengthInvalid(len) == len < MinPasswordLength \/ len > MaxPasswordLength

RandomIndex(v, charset) == Uint32Mod(v, Len(charset))

\* mutant: the loop stops one character early
PasswordArrayShort(len, charset, randomValues) ==
    [ i \in 1..(len - 1) |->
        CharAt(charset, RandomIndex(randomValues[i], charset)) ]

PasswordArray(len, charset, randomValues) ==
    [ i \in 1..len |-> CharAt(charset, RandomIndex(randomValues[i], charset)) ]

\* mutant: the length is validated before the character set
generatePasswordLengthFirst(o, randomValues) ==
    LET charset == Charset(o) IN
    IF LengthInvalid(o.length) THEN Throw(LengthError)
    ELSE IF Len(charset) = 0 THEN Throw(EmptyClassError)
    ELSE Return(Join(PasswordArray(o.length, charset, randomValues)))

\* randomValues: the contents of the Uint32Array after it was filled
generatePassword(o, randomValues) ==
    LET charset == Charset(o) IN
    IF Len(charset) = 0 THEN Throw(EmptyClassError)
    ELSE IF LengthInvalid(o.length) THEN Throw(LengthError)
    ELSE Return(Join(PasswordArray(o.length, charset, randomValues)))

LengthContribution(n) ==
    IF n >= 12 THEN 4 ELSE IF n >= 8 THEN 2 ELSE IF n >= 6 THEN 1 ELSE 0

VarietyCount(o) ==
    (IF o.includeUppercase THEN 1 ELSE 0)
    + (IF o.includeLowercase THEN 1 ELSE 0)
    + (IF o.includeNumbers THEN 1 ELSE 0)
    + (IF o.includeSymbols THEN 1 ELSE 0)

\* mutant: Math.floor in the place of Math.round
MathFloorHalves(h) == h \div 2

\* Math.round of h/2 for an integer h >= 0: floor(h/2 + 1/2)
MathRoundHalves(h) == (h + 1) \div 2

\* mutant: the length is read from the options, not from the password
calculatePasswordStrengthOfPolicy(pw, o) ==
    LET strength2 == 2 * LengthContribution(o.length) + 3 * VarietyCount(o)
    IN  Min(MaxStrength, MathRoundHalves(strength2))

\* strength is kept doubled, so that varietyCount * 1.5 stays an integer
calculatePasswordStrength(pw, o) ==
    LET strength2 == 2 * LengthContribution(Len(pw)) + 3 * VarietyCount(o)
    IN  Min(MaxStrength, MathRoundHalves(strength2))

\* mutant: the thresholds of the doc comment of calculatePasswordStrength
getStrengthInfoAsDocumented(strength) ==
    IF strength <= 4 THEN [label |-> "Weak", color |-> "bg-red-500"]
    ELSE IF strength <= 7 THEN [label |-> "Medium", color |-> "bg-yellow-500"]
    ELSE [label |-> "Strong", color |-> "bg-green-500"]

getStrengthInfo(strength) ==
    IF strength <= 3 THEN [label |-> "Weak", color |-> "bg-red-500"]
    ELSE IF strength <= 6 THEN [label |-> "Medium", color |-> "bg-yellow-500"]
    ELSE [label |-> "Strong", color |-> "bg-green-500"]

----------------------------------------------------------------------------
(* The random source of generatePassword *)

\* the 32-bit values the draws are taken from; the last one is 2^32 - 1
SampleValues ==
    << U32(0, 0), U32(0, 26), U32(0, 87),
       U32(Half - 1, Half - 2), U32(Half - 1, Half - 1) >>

\* window.crypto.getRandomValues yields any 32-bit value;
\* Math.floor(Math.random() * 0xffffffff) never yields 2^32 - 1
SourceValues(hasCrypto) ==
    IF hasCrypto THEN SampleValues
    ELSE SelectSeq(SampleValues, LAMBDA v : v # U32(Half - 1, Half - 1))

\* the contents a Uint32Array(n) can have after it was filled
RandomValues(n, hasCrypto) ==
    LET s == SourceValues(hasCrypto)
        K == Len(s)
    IN  IF n <= MaxFreeLen THEN [1..n -> Range(s)]
        ELSE { [ i \in 1..n |-> s[((start + (i - 1) * stride) % K) + 1] ] :
                 start \in 0..(K - 1), stride \in 0..MaxStride }

----------------------------------------------------------------------------
(* Inputs of the library calls *)

LengthInputs ==
    ((MinPasswordLength - LenMargin)..(MinPasswordLength + LenMargin))
    \cup ((MaxPasswordLength - LenMargin)..(MaxPasswordLength + LenMargin))
    \cup {UIMinLength, InitialLength, UIMaxLength}

PolicyInputs ==
    { PasswordOptions(len, up, low, num, sym) :
        len \in LengthInputs, up \in BOOLEAN, low \in BOOLEAN,
        num \in BOOLEAN, sym \in BOOLEAN }

ScoredLengths ==
    (0..MaxScoredLen) \cup {InitialLength, UIMaxLength, MaxPasswordLength}

AllChars == UPPERCASE \o LOWERCASE \o NUMBERS \o SYMBOLS

\* passwords of n characters: one character repeated, and a mixed one
PasswordInputs(n) ==
    { [ i \in 1..n |-> c ] : c \in {"a", "Z", "7", "#"} }
    \cup { [ i \in 1..n |-> AllChars[((7 * i) % Len(AllChars)) + 1] ] }

ScoreInputs == 0..MaxStrength

----------------------------------------------------------------------------
(* Library harness: a caller invokes one exported function, reads what it  *)
(* returned or threw, and is then free to make the next call               *)

NoCall == [op |-> "none", args |-> << >>, ret |-> << >>]

CallGeneratePassword ==
    /\ call.op = "none"
    /\ \E o \in PolicyInputs, hasCrypto \in BOOLEAN :
      \E randomValues \in RandomValues(o.length, hasCrypto) :
        /\ call' = [ op |-> "generatePassword",
                     args |-> [options |-> o, randomValues |-> randomValues],
                     ret |-> generatePassword(o, randomValues) ]
        /\ UNCHANGED uiVars

CallCalculatePasswordStrength ==
    /\ call.op = "none"
    /\ \E n \in ScoredLengths, o \in PolicyInputs :
      \E pw \in PasswordInputs(n) :
        /\ call' = [ op |-> "calculatePasswordStrength",
                     args |-> [password |-> pw, options |-> o],
                     ret |-> calculatePasswordStrength(pw, o) ]
        /\ UNCHANGED uiVars

CallGetStrengthInfo ==
    /\ call.op = "none"
    /\ \E s \in ScoreInputs :
        /\ call' = [ op |-> "getStrengthInfo",
                     args |-> [strength |-> s],
                     ret |-> getStrengthInfo(s) ]
        /\ UNCHANGED uiVars

CallDone ==
    /\ call.op # "none"
    /\ call' = NoCall
    /\ UNCHANGED uiVars

\* the library alone: the page component is not mounted
LibInit ==
    /\ length = InitialLength
    /\ options = PasswordOptions(InitialLength, TRUE, TRUE, TRUE, TRUE)
    /\ copied = FALSE
    /\ password = << >>
    /\ console = {}
    /\ call = NoCall

LibNext ==
    \/ CallGeneratePassword
    \/ CallCalculatePasswordStrength
    \/ CallGetStrengthInfo
    \/ CallDone

LibSpec == LibInit /\ [][LibNext]_vars

----------------------------------------------------------------------------
(* app/page.tsx *)

Digits == Range(NUMBERS)

\* the value of a decimal digit: its place in NUMBERS
DigitValue(c) == (CHOOSE i \in 1..Len(NUMBERS) : NUMBERS[i] = c) - 1

RECURSIVE DecimalValue(_)
DecimalValue(ds) ==
    IF ds = << >> THEN 0
    ELSE 10 * DecimalValue(SubSeq(ds, 1, Len(ds) - 1)) + DigitValue(ds[Len(ds)])

NaN == [isNaN |-> TRUE, value |-> 0]
Number(n) == [isNaN |-> FALSE, value |-> n]

\* parseInt(text, 10): leading blanks are skipped, a sign is read, then the
\* longest run of digits; NaN when there is no digit
parseInt(text) ==
    LET solid == { i \in 1..Len(text) : text[i] # " " }
        first == IF solid = {} THEN Len(text) + 1
                 ELSE CHOOSE i \in solid : \A j \in solid : i <= j
        signed == first <= Len(text) /\ text[first] \in {"-", "+"}
        from == IF signed THEN first + 1 ELSE first
        stops == { i \in from..Len(text) : text[i] \notin Digits }
        to == IF stops = {} THEN Len(text)
              ELSE (CHOOSE i \in stops : \A j \in stops : i <= j) - 1
        magnitude == DecimalValue(SubSeq(text, from, to))
    IN  IF to < from THEN NaN
        ELSE IF signed /\ text[first] = "-" THEN Number(0 - magnitude)
        ELSE Number(magnitude)

\* the texts e.target.value takes
LengthTexts ==
    { << >>, <<"x">>, <<"5">>, <<" ","6">>, <<"+","1","6">>,
      <<"3","2","p","x">>, <<"3","3">>, <<"0">>, <<"-","6">>, <<"1","2","8">> }

OptionKeys ==
    {"includeUppercase", "includeLowercase", "includeNumbers", "includeSymbols"}

initialOptions == PasswordOptions(InitialLength, TRUE, TRUE, TRUE, TRUE)

NoneSelected(o) ==
    /\ ~o.includeUppercase
    /\ ~o.includeLowercase
    /\ ~o.includeNumbers
    /\ ~o.includeSymbols

\* useMemo: the strength shown for the current password and options
strength == IF password = << >> THEN 0
            ELSE calculatePasswordStrength(password, options)

strengthInfo == getStrengthInfo(strength)

\* the lazy initializer of the password state
InitialPassword(randomValues) ==
    LET r == generatePassword([initialOptions EXCEPT !.length = InitialLength],
                              randomValues)
    IN  IF r.threw THEN << >> ELSE r.value

Init ==
    /\ length = InitialLength
    /\ options = initialOptions
    /\ copied = FALSE
    /\ \E hasCrypto \in BOOLEAN :
         \E randomValues \in RandomValues(InitialLength, hasCrypto) :
           password = InitialPassword(randomValues)
    /\ console = {}
    /\ call = NoCall

generateNewPassword ==
    \E hasCrypto \in BOOLEAN :
      \E randomValues \in RandomValues(length, hasCrypto) :
        LET r == generatePassword([options EXCEPT !.length = length],
                                  randomValues)
        IN  /\ IF r.threw
               THEN /\ console' = console \cup {GenerateErrorLog}
                    /\ UNCHANGED <<password, copied>>
               ELSE /\ password' = r.value
                    /\ copied' = FALSE
                    /\ UNCHANGED console
            /\ UNCHANGED <<length, options, call>>

LengthAccepted(newLength) ==
    /\ ~newLength.isNaN
    /\ newLength.value >= UIMinLength
    /\ newLength.value <= UIMaxLength

handleLengthChange(text) ==
    LET newLength == parseInt(text) IN
    /\ IF LengthAccepted(newLength)
       THEN /\ length' = newLength.value
            /\ options' = [options EXCEPT !.length = newLength.value]
       ELSE UNCHANGED <<length, options>>
    /\ UNCHANGED <<copied, password, console, call>>

\* mutant: the toggle is applied without the check
OptionKeptUnchecked(prev, newOptions) == newOptions

OptionKept(prev, newOptions) ==
    IF NoneSelected(newOptions) THEN prev ELSE newOptions

handleOptionChange(key) ==
    /\ options' = OptionKept(options, [options EXCEPT ![key] = ~options[key]])
    /\ UNCHANGED <<length, copied, password, console, call>>

Next ==
    \/ generateNewPassword
    \/ \E text \in LengthTexts : handleLengthChange(text)
    \/ \E key \in OptionKeys : handleOptionChange(key)

Spec == Init /\ [][Next]_vars

----------------------------------------------------------------------------
(* The claims.  C1-C9 are about the library and are checked under LibSpec; *)
(* C10 is about the page component and is checked under Spec.              *)

Generated == call.op = "generatePassword"
Scored == call.op = "calculatePasswordStrength"
Classified == call.op = "getStrengthInfo"

AnySelected(o) ==
    o.includeUppercase \/ o.includeLowercase \/ o.includeNumbers
    \/ o.includeSymbols

ValidPolicy(o) == AnySelected(o) /\ o.length >= 1 /\ o.length <= 128

\* the characters of the enabled classes, as a set
EnabledChars(o) ==
    (IF o.includeUppercase THEN Range(UPPERCASE) ELSE {})
    \cup (IF o.includeLowercase THEN Range(LOWERCASE) ELSE {})
    \cup (IF o.includeNumbers THEN Range(NUMBERS) ELSE {})
    \cup (IF o.includeSymbols THEN Range(SYMBOLS) ELSE {})

\* the alphabets of the enabled classes
EnabledClasses(o) ==
    (IF o.includeUppercase THEN {Range(UPPERCASE)} ELSE {})
    \cup (IF o.includeLowercase THEN {Range(LOWERCASE)} ELSE {})
    \cup (IF o.includeNumbers THEN {Range(NUMBERS)} ELSE {})
    \cup (IF o.includeSymbols THEN {Range(SYMBOLS)} ELSE {})

\* C1: for a valid policy and any draws, generatePassword returns (it does
\* not throw) a string of exactly policy.length characters.
C1_ExactLength ==
    (Generated /\ ValidPolicy(call.args.options))
        => /\ ~call.ret.threw
           /\ Len(call.ret.value) = call.args.options.length

C1_Witness ==
    /\ Generated
    /\ call.args.options = PasswordOptions(128, TRUE, TRUE, TRUE, TRUE)
    /\ Len(call.ret.value) = 128
    /\ \E i \in 1..128 : call.args.randomValues[i] = U32(Half - 1, Half - 1)

\* C2: for a valid policy and any draws, the pool is the alphabets of the
\* enabled classes in the order uppercase, lowercase, digits, symbols, the
\* i-th character is the pool's character at index draw_i % poolLength, which
\* lies in 0..poolLength-1, and so every character belongs to an enabled class.
C2_EnabledCharsOnly ==
    (Generated /\ ValidPolicy(call.args.options))
        => LET o == call.args.options
               pool == SelectSeq(AllChars, LAMBDA c : c \in EnabledChars(o))
               index(i) == Uint32Mod(call.args.randomValues[i], Len(pool))
           IN  /\ DOMAIN call.ret.value = 1..o.length
               /\ \A i \in 1..o.length :
                    /\ index(i) \in 0..(Len(pool) - 1)
                    /\ call.ret.value[i] = pool[index(i) + 1]
                    /\ call.ret.value[i] \in EnabledChars(o)

C2_Witness ==
    /\ Generated
    /\ call.args.options = PasswordOptions(16, FALSE, TRUE, TRUE, FALSE)
    /\ ~call.ret.threw
    /\ \E i \in 1..16 : /\ call.args.randomValues[i] = U32(0, 87)
                        /\ call.ret.value[i] = "p"
    /\ \E i \in 1..16 : call.ret.value[i] \in Range(NUMBERS)

\* C3: for a valid policy, the returned password holds at least one
\* character of each enabled class, whatever the draws are.
C3_EachClassPresent ==
    (Generated /\ ValidPolicy(call.args.options))
        => /\ ~call.ret.threw
           /\ \A class \in EnabledClasses(call.args.options) :
                \E i \in 1..Len(call.ret.value) : call.ret.value[i] \in class

\* C4: with all four flags false generatePassword throws the
\* empty-character-class error for every length, also a length outside
\* 1..128, and returns no password.
C4_EmptyClassError ==
    (Generated /\ ~AnySelected(call.args.options))
        => /\ call.ret.threw
           /\ call.ret.error = "At least one character type must be selected"
           /\ call.ret.value = << >>

C4_Witness ==
    /\ Generated
    /\ call.args.options = PasswordOptions(129, FALSE, FALSE, FALSE, FALSE)
    /\ call.ret.threw
    /\ call.ret.error = EmptyClassError

\* C5: with at least one class enabled generatePassword throws the
\* length-out-of-range error iff length < 1 or length > 128, and throws
\* nothing else: it fails for 0 and 129 and succeeds for 1 and 128.
C5_LengthRange ==
    (Generated /\ AnySelected(call.args.options))
        => LET len == call.args.options.length IN
           /\ call.ret.threw <=> (len < 1 \/ len > 128)
           /\ call.ret.threw =>
                call.ret.error = "Password length must be between 1 and 128"
           /\ len \in {0, 129} => call.ret.threw
           /\ len \in {1, 128} => ~call.ret.threw

C5_Witness ==
    /\ Generated
    /\ AnySelected(call.args.options)
    /\ call.args.options.length = 128
    /\ ~call.ret.threw
    /\ Len(call.ret.value) = 128

\* the enabled flags of a policy, counted
EnabledCount(o) == Cardinality({ key \in OptionKeys : o[key] })

\* min(10, roundHalfUp(L(n) + 1.5 * k)); 1.5 * k rounds half up to 0, 2, 3, 5, 6
ExpectedScore(n, k) ==
    LET L == IF n >= 12 THEN 4
             ELSE IF n >= 8 /\ n < 12 THEN 2
             ELSE IF n >= 6 /\ n < 8 THEN 1
             ELSE 0
        variety == << 0, 2, 3, 5, 6 >>[k + 1]
    IN  IF L + variety > 10 THEN 10 ELSE L + variety

\* C6: calculatePasswordStrength returns min(10, roundHalfUp(L(n) + 1.5k))
\* for a password of n characters and k enabled flags, an integer in 0..10
\* (n=6,k=1: 3; n=8,k=2: 5; n=32,k=1: 6; n=16,k=4: 10).
C6_StrengthFormula ==
    Scored
        => LET n == Len(call.args.password)
               k == EnabledCount(call.args.options)
           IN  /\ call.ret = ExpectedScore(n, k)
               /\ call.ret \in 0..10
               /\ (n = 6 /\ k = 1) => call.ret = 3
               /\ (n = 8 /\ k = 2) => call.ret = 5
               /\ (n = 32 /\ k = 1) => call.ret = 6
               /\ (n = 16 /\ k = 4) => call.ret = 10

C6_Witness ==
    /\ Scored
    /\ Len(call.args.password) = 6
    /\ EnabledCount(call.args.options) = 1
    /\ call.ret = 3

SameFlags(o1, o2) == \A key \in OptionKeys : o1[key] = o2[key]

\* C7: calculatePasswordStrength depends only on the password's length and
\* the four flags: any password of the same length and any policy with the
\* same flags (whatever its length field) gets the same score.
C7_LengthAndFlagsOnly ==
    Scored
        => \A pw \in PasswordInputs(Len(call.args.password)) :
             \A o \in PolicyInputs :
               SameFlags(o, call.args.options)
                 => calculatePasswordStrength(pw, o) = call.ret

C7_Witness ==
    /\ Scored
    /\ Len(call.args.password) = 8
    /\ call.args.options.length = 128
    /\ \E pw \in PasswordInputs(8) : pw # call.args.password
    /\ \E o \in PolicyInputs :
         SameFlags(o, call.args.options) /\ o.length = 1

C9_DocumentedTiers ==
    Classified
        => LET s == call.args.strength
               info == call.ret
           IN  /\ info.label = "Weak" <=> s <= 4
               /\ info.label = "Medium" <=> (5 <= s /\ s <= 7)
               /\ info.label = "Strong" <=> s >= 8

\* C10: in the page, after any toggles, length changes and generate clicks,
\* at least one flag is true and the stored length is within 6..32, so the
\* policy passed to generatePassword is valid and generateNewPassword never
\* takes its error path.
C10_PagePolicyValid ==
    /\ AnySelected(options)
    /\ length >= 6 /\ length <= 32
    /\ options.length = length
    /\ ValidPolicy([options EXCEPT !.length = length])
    /\ console = {}
    /\ Len(password) >= 6 /\ Len(password) <= 32

C10_Witness ==
    /\ options = PasswordOptions(6, FALSE, FALSE, TRUE, FALSE)
    /\ length = 6
    /\ Len(password) = 6
    /\ \A i \in 1..6 : password[i] \in Range(NUMBERS)

====
